---------------------------- MODULE Spec2Model ----------------------------
(***************************************************************************)
(* Heal-Fit, report analyzer (src/unnamed/part_000, component              *)
(* ReportAnalyzer): the submission pipeline analyzeContent, the            *)
(* section-extraction heuristic extractSection and the component state     *)
(* they act on.                                                            *)
(*                                                                         *)
(* Texts are TLA+ strings handled character by character (Len, SubSeq and  *)
(* \o on strings), so that the string operations of the source             *)
(* (toLowerCase, includes, endsWith, split, trim) are computed, not        *)
(* assumed.                                                                *)
(***************************************************************************)
EXTENDS Integers, Sequences, FiniteSets, TLC

----------------------------------------------------------------------------
(* String operations of the JavaScript runtime used by the source.         *)

NL == "\n"

CharAt(s, i) == SubSeq(s, i, i)

\* String.prototype.toLowerCase, on the letters the modelled texts use.
LowerChar(c) ==
    CASE c = "A" -> "a" [] c = "B" -> "b" [] c = "C" -> "c" [] c = "D" -> "d"
      [] c = "E" -> "e" [] c = "F" -> "f" [] c = "G" -> "g" [] c = "H" -> "h"
      [] c = "I" -> "i" [] c = "J" -> "j" [] c = "K" -> "k" [] c = "L" -> "l"
      [] c = "M" -> "m" [] c = "N" -> "n" [] c = "O" -> "o" [] c = "P" -> "p"
      [] c = "Q" -> "q" [] c = "R" -> "r" [] c = "S" -> "s" [] c = "T" -> "t"
      [] c = "U" -> "u" [] c = "V" -> "v" [] c = "W" -> "w" [] c = "X" -> "x"
      [] c = "Y" -> "y" [] c = "Z" -> "z" [] OTHER -> c

RECURSIVE toLowerCase(_)
toLowerCase(s) ==
    IF Len(s) = 0 THEN ""
    ELSE IF Len(s) = 1 THEN LowerChar(s)
    ELSE LET h == Len(s) \div 2
         IN  toLowerCase(SubSeq(s, 1, h)) \o toLowerCase(SubSeq(s, h + 1, Len(s)))

\* String.prototype.includes
includes(s, sub) ==
    \E i \in 1..(Len(s) - Len(sub) + 1) : SubSeq(s, i, i + Len(sub) - 1) = sub

\* String.prototype.endsWith
endsWith(s, sub) ==
    /\ Len(sub) <= Len(s)
    /\ SubSeq(s, Len(s) - Len(sub) + 1, Len(s)) = sub

\* String.prototype.startsWith
startsWith(s, sub) ==
    /\ Len(sub) <= Len(s)
    /\ SubSeq(s, 1, Len(sub)) = sub

IsSpace(c) == c \in {" ", "\n", "\t", "\r"}

RECURSIVE trimStart(_)
trimStart(s) ==
    IF Len(s) > 0 /\ IsSpace(CharAt(s, 1))
    THEN trimStart(SubSeq(s, 2, Len(s)))
    ELSE s

RECURSIVE trimEnd(_)
trimEnd(s) ==
    IF Len(s) > 0 /\ IsSpace(CharAt(s, Len(s)))
    THEN trimEnd(SubSeq(s, 1, Len(s) - 1))
    ELSE s

\* String.prototype.trim
trim(s) == trimEnd(trimStart(s))

\* text.split('\n'): the lines of a text; the empty text has one empty line.
RECURSIVE splitFrom(_, _)
splitFrom(s, start) ==
    LET breaks == { i \in start..Len(s) : CharAt(s, i) = NL } IN
    IF breaks = {} THEN << SubSeq(s, start, Len(s)) >>
    ELSE LET j == CHOOSE i \in breaks : \A k \in breaks : i <= k
         IN  << SubSeq(s, start, j - 1) >> \o splitFrom(s, j + 1)

split(s) == splitFrom(s, 1)

\* Array.prototype.join
RECURSIVE join(_, _)
join(seq, sep) ==
    IF Len(seq) = 0 THEN ""
    ELSE IF Len(seq) = 1 THEN seq[1]
    ELSE seq[1] \o sep \o join(Tail(seq), sep)

----------------------------------------------------------------------------
(* extractSection, part_000 lines 227-263.                                 *)

\* line.length < 50 in isPotentialHeading (line 250)
HeadingMaxLen == 50

NoInformation == "No information available"

\* lines 236-239: `line` is the lower-cased line
isTargetSection(line, sectionNames) ==
    \E k \in 1..Len(sectionNames) :
        /\ includes(line, toLowerCase(sectionNames[k]))
        /\ (includes(line, ":") \/ endsWith(line, toLowerCase(sectionNames[k])))

\* lines 250-252 asking for the colon at the end of the line only
isPotentialHeading_EndsWithColon(line) ==
    /\ Len(line) < HeadingMaxLen
    /\ endsWith(line, ":")
    /\ ~includes(line, "  ")

\* lines 250-252: `line` is the lower-cased line
isPotentialHeading(line) ==
    /\ Len(line) < HeadingMaxLen
    /\ (includes(line, ":") \/ endsWith(line, ":"))
    /\ ~includes(line, "  ")

\* the loop of lines 232-260 starting the captured text after the heading line
RECURSIVE extractLoop_BodyOnly(_, _, _, _, _)
extractLoop_BodyOnly(lines, sectionNames, i, extractedText, capturing) ==
    IF i > Len(lines) THEN extractedText
    ELSE LET line == toLowerCase(lines[i]) IN
         IF isTargetSection(line, sectionNames)
         THEN extractLoop_BodyOnly(lines, sectionNames, i + 1, "", TRUE)
         ELSE IF capturing
              THEN IF isPotentialHeading(line) /\ i > 1 /\ trim(lines[i - 1]) = ""
                   THEN extractedText
                   ELSE extractLoop_BodyOnly(lines, sectionNames, i + 1,
                                             extractedText \o NL \o lines[i], TRUE)
              ELSE extractLoop_BodyOnly(lines, sectionNames, i + 1,
                                        extractedText, FALSE)

\* The for loop of lines 232-260 from index i on (1-based), with the loop's
\* two locals; the result is the final extractedText.
RECURSIVE extractLoop(_, _, _, _, _)
extractLoop(lines, sectionNames, i, extractedText, capturing) ==
    IF i > Len(lines) THEN extractedText
    ELSE LET line == toLowerCase(lines[i]) IN
         IF isTargetSection(line, sectionNames)
         THEN extractLoop(lines, sectionNames, i + 1, lines[i], TRUE)
         ELSE IF capturing
              THEN IF isPotentialHeading(line) /\ i > 1 /\ trim(lines[i - 1]) = ""
                   THEN extractedText
                   ELSE extractLoop(lines, sectionNames, i + 1,
                                    extractedText \o NL \o lines[i], TRUE)
              ELSE extractLoop(lines, sectionNames, i + 1, extractedText, FALSE)

extractSection(text, sectionNames) ==
    LET out == trim(extractLoop(split(text), sectionNames, 1, "", FALSE))
    IN  IF out = "" THEN NoInformation ELSE out

\* The keyword sets analyzeContent passes (lines 198, 202, 207).
FindingsNames == << "document findings", "text findings" >>
DiagnosisNames == << "diagnosis", "assessment" >>
RecommendationNames == << "recommendation", "treatment", "plan" >>


----------------------------------------------------------------------------
(* ReportAnalyzer: component state (lines 25-31) and the state of the one  *)
(* run of analyzeContent that may be in flight.                            *)

VARIABLES
    files,                  \* useState<File[]>            (line 25)
    patientName,            \* useState('')                (line 26)
    isAnalyzing,            \* useState(false)             (line 27)
    error,                  \* useState('')                (line 28)
    result,                 \* useState<AnalysisResult|null> (line 29)
    previewUrls,            \* useState<string[]>          (line 30)
    imageAnalysisProgress,  \* useState<{[key]: number}>   (line 31)
    pc,                     \* the await analyzeContent is suspended at
    cFiles,                 \* `files` as captured by the running closure
    cName,                  \* `patientName` as captured by the running closure
    parts,                  \* const parts: Part[]         (line 84)
    imageAnalysis,          \* const imageAnalysis         (line 115)
    idx,                    \* position of the for loop of line 118 (1-based)
    pdfPending,             \* extractTextFromPDF timers not yet fired
    sent,                   \* history: completion requests of the current run
    replies                 \* history: per-image replies of the current run

\* The state of one application of the section extraction to a reply.
VARIABLES
    exShape,                \* the reply, as the blocks of lines it is made of
    exOut,                  \* the three fields extracted from it
    exDone                  \* the extraction has been applied

exVars == << exShape, exOut, exDone >>

\* The state of one application of the section parsing to a reply given as
\* its lines.
VARIABLES
    secReply,               \* the lines of the reply
    secOut,                 \* the three fields parsed from it
    secDone                 \* the parsing has been applied

secVars == << secReply, secOut, secDone >>

\* What generatePDF hands to the browser.
VARIABLES
    download,               \* the document last saved by doc.save (line 341)
    downloadOf              \* history: the `result` and the patient-name
                            \* field it was rendered from

pdfVars == << download, downloadOf >>

\* AuthenticatedApp (App.tsx): which panel is open, and for whom.
VARIABLES
    showProfile,            \* useState(false)             (App.tsx line 17)
    showBlockchain,         \* useState(false)             (App.tsx line 18)
    showCommunity,          \* useState(false)             (App.tsx line 19)
    showHandTracker,        \* useState(false)             (App.tsx line 20)
    showAdminControl,       \* useState(false)             (App.tsx line 21)
    showReportAnalyzer,     \* useState(false)             (App.tsx line 22)
    user,                   \* useAuth().user              (App.tsx line 16)
    rendered                \* history: what <main> showed after each event

appVars == << showProfile, showBlockchain, showCommunity, showHandTracker,
              showAdminControl, showReportAnalyzer, user, rendered >>

\* Dashboard (components/Profile.tsx): rewards, challenges, notifications.
VARIABLES
    userPoints,             \* useState(0)                 (Profile.tsx line 111)
    userCoupons,            \* useState([])                (Profile.tsx line 112)
    moduleProgress,         \* useState({challenges: 0, ...}) (line 113)
    challenges,             \* useState<Challenge[]>       (Profile.tsx line 288)
    journalEntries,         \* useState([])                (Profile.tsx line 97)
    notification,           \* useState(null)              (Profile.tsx line 107)
    timers,                 \* setTimeout timers not yet fired, by the
                            \* seconds each still has to run
    nextSerial              \* tells the next notification object from the
                            \* one it replaces

dashVars == << userPoints, userCoupons, moduleProgress, challenges,
               journalEntries, notification, timers, nextSerial >>

\* HealthProfile (part_001): the six-step form.
VARIABLES
    formData,               \* useState<HealthProfileData> (part_001 line 46)
    currentStep,            \* useState(1)                 (part_001 line 74)
    isSubmitting,           \* useState(false)             (part_001 line 75)
    showSuccess,            \* useState(false)             (part_001 line 76)
    showSaveReminder,       \* useState(false)             (part_001 line 77)
    saving,                 \* the updateProfile call handleSubmit awaits
    alerted                 \* the message of the last alert() (line 97)

formVars == << formData, currentStep, isSubmitting, showSuccess,
               showSaveReminder, saving, alerted >>

uiVars == << appVars, dashVars, formVars >>

\* what the operations of ReportAnalyzer leave alone
raOthers == << exVars, secVars, pdfVars, uiVars >>

raVars == << files, patientName, isAnalyzing, error, result, previewUrls,
             imageAnalysisProgress, pc, cFiles, cName, parts, imageAnalysis,
             idx, pdfPending, sent, replies >>

\* Bounds of the model.
MaxFiles == 2

PdfType == "application/pdf"
DocxType == "application/vnd.openxmlformats-officedocument.wordprocessingml.document"

\* The files a user may pick: {name, MIME type}; the same file may be picked
\* twice in a selection, which stands for two files of the same name.
FilePool ==
    { [name |-> "report.pdf", type |-> PdfType],
      [name |-> "scan.jpg",   type |-> "image/jpeg"],
      [name |-> "xray.png",   type |-> "image/png"],
      [name |-> "notes.docx", type |-> DocxType] }

Selections == UNION { [1..n -> FilePool] : n \in 0..MaxFiles }

PatientNames == { "", "Jane Doe" }

ValidationMessage == "Please upload files and enter patient name"
GenericMessage == "Error analyzing documents. Please try again."

NullResult == [null |-> TRUE]
EmptyMap == [n \in {} |-> n]

\* an assignment that keeps the value a key already has
Put_KeepFirst(obj, key, value) ==
    [k \in (DOMAIN obj) \cup {key} |-> IF k \in DOMAIN obj THEN obj[k] ELSE value]

\* obj[key] = value on a JavaScript object
Put(obj, key, value) ==
    [k \in (DOMAIN obj) \cup {key} |-> IF k = key THEN value ELSE obj[k]]

isPdf(f) == f.type = PdfType                       \* line 102
\* file.type.startsWith('image/'), lines 39, 114
ImageTypes == { f.type : f \in { g \in FilePool : startsWith(g.type, "image/") } }
isImage(f) == f.type \in ImageTypes

pdfFilesOf(fs) == SelectSeq(fs, isPdf)             \* line 102
imageFilesOf(fs) == SelectSeq(fs, isImage)         \* line 114

\* handleFileChange, lines 33-45
RECURSIVE previewUrlsOf(_)
previewUrlsOf(fs) ==
    IF Len(fs) = 0 THEN << >>
    ELSE (IF isImage(Head(fs)) THEN << "blob:" \o Head(fs).name >> ELSE << >>)
         \o previewUrlsOf(Tail(fs))

----------------------------------------------------------------------------
(* The completion service's replies the model draws from.                  *)

JsonReply ==
    "{\"description\":\"Clear lung fields\",\"abnormalities\":[\"nodule\"],"
    \o "\"measurements\":[],\"confidence\":85,\"recommendations\":\"Follow up\"}"

\* the same object after a sentence of prose: not JSON
ProseReply == "Here is the analysis:\n" \o JsonReply

ImageReplies == { JsonReply, ProseReply }

\* JSON.parse (line 163) on the replies above: the parsed value, or a
\* SyntaxError.
JSONparse(text) ==
    CASE text = JsonReply ->
           [ok |-> TRUE,
            value |-> [description |-> "Clear lung fields",
                       abnormalities |-> << "nodule" >>,
                       measurements |-> << >>,
                       confidence |-> 85,
                       recommendations |-> "Follow up"]]
      [] OTHER -> [ok |-> FALSE]

UnableToParse == "Unable to parse detailed analysis"

\* lines 161-174 copying the known fields one by one, the confidence clamped
findingsOf_Rewritten(responseText) ==
    LET parsed == JSONparse(responseText) IN
    IF parsed.ok
    THEN [description |-> parsed.value.description,
          abnormalities |-> parsed.value.abnormalities,
          measurements |-> parsed.value.measurements,
          confidence |-> IF parsed.value.confidence > 50 THEN 100 ELSE 0,
          recommendations |-> parsed.value.recommendations]
    ELSE [description |-> responseText,
          abnormalities |-> << >>,
          measurements |-> << >>,
          confidence |-> 0,
          recommendations |-> UnableToParse]

\* lines 161-174 with a fallback that drops the reply text
findingsOf_NoText(responseText) ==
    LET parsed == JSONparse(responseText) IN
    IF parsed.ok THEN parsed.value
    ELSE [description |-> "",
          abnormalities |-> << >>,
          measurements |-> << >>,
          confidence |-> 0,
          recommendations |-> UnableToParse]

\* lines 161-174: the record stored for one image reply
findingsOf(responseText) ==
    LET parsed == JSONparse(responseText) IN
    IF parsed.ok THEN parsed.value
    ELSE [description |-> responseText,
          abnormalities |-> << >>,
          measurements |-> << >>,
          confidence |-> 0,
          recommendations |-> UnableToParse]

AggregateReplies ==
    { "Document Findings:\nMock text reviewed\n\nDiagnosis: Mild strain\n  rest\n  ice\n\nRecommendations:\nFollow up in two weeks",
      "Diagnosis: Mild strain\nAssessment: stable" }

NoFindings == "No document findings available"
NoDiagnosis == "No diagnosis available"
NoRecommendations == "No recommendations available"

\* lines 189-208: the three text fields taken from the aggregate reply
sectionsOf(responseText) ==
    LET low == toLowerCase(responseText) IN
    [ textFindings |->
          IF includes(low, "document findings") \/ includes(low, "text findings")
          THEN extractSection(responseText, FindingsNames) ELSE NoFindings,
      diagnosis |->
          IF includes(low, "diagnosis")
          THEN extractSection(responseText, DiagnosisNames) ELSE NoDiagnosis,
      recommendations |->
          IF includes(low, "recommendation") \/ includes(low, "treatment")
          THEN extractSection(responseText, RecommendationNames)
          ELSE NoRecommendations ]

\* sectionsOf on the replies of the model, computed once
sectionTable == [r \in AggregateReplies |-> sectionsOf(r)]

\* lines 210-215
buildResult(responseText, analysis) ==
    [ textFindings |-> sectionTable[responseText].textFindings,
      imageFindings |-> analysis,
      diagnosis |-> sectionTable[responseText].diagnosis,
      recommendations |-> sectionTable[responseText].recommendations ]

----------------------------------------------------------------------------
(* The request parts (lines 87-132).                                       *)

instructionPart(name) ==
    [text |-> "Analyze the following medical documents and generate a comprehensive report for patient \""
              \o name \o "\"."]

mockText(f) == "Mock extracted text from " \o f.name          \* line 52

RECURSIVE mockTexts(_)
mockTexts(fs) ==
    IF Len(fs) = 0 THEN << >> ELSE << mockText(Head(fs)) >> \o mockTexts(Tail(fs))

pdfPart(fs) ==                                                \* lines 108-110
    [text |-> "Text extracted from PDF documents:\n" \o join(mockTexts(fs), "\n\n")]

imageLabelPart(i, n, f) ==                                    \* lines 127-129
    [text |-> "Analyzing medical image " \o ToString(i) \o " of " \o ToString(n)
              \o ": " \o f.name]

imagePart(f) ==                                               \* lines 65-70
    [inlineData |-> [data |-> "base64:" \o f.name, mimeType |-> f.type]]

----------------------------------------------------------------------------
(* Operations of ReportAnalyzer.                                           *)

raInit ==
    /\ files = << >>
    /\ patientName = ""
    /\ isAnalyzing = FALSE
    /\ error = ""
    /\ result = NullResult
    /\ previewUrls = << >>
    /\ imageAnalysisProgress = EmptyMap
    /\ pc = "idle"
    /\ cFiles = << >>
    /\ cName = ""
    /\ parts = << >>
    /\ imageAnalysis = EmptyMap
    /\ idx = 0
    /\ pdfPending = {}
    /\ sent = << >>
    /\ replies = << >>

\* a file selection that also drops the displayed result
handleFileChange_Reset(selectedFiles) ==
    /\ UNCHANGED raOthers
    /\ files' = selectedFiles
    /\ previewUrls' = previewUrlsOf(selectedFiles)
    /\ result' = NullResult
    /\ UNCHANGED << patientName, isAnalyzing, error,
                    imageAnalysisProgress, pc, cFiles, cName, parts,
                    imageAnalysis, idx, pdfPending, sent, replies >>

\* handleFileChange, lines 33-45
handleFileChange(selectedFiles) ==
    /\ UNCHANGED raOthers
    /\ files' = selectedFiles
    /\ previewUrls' = previewUrlsOf(selectedFiles)
    /\ UNCHANGED << patientName, isAnalyzing, error, result,
                    imageAnalysisProgress, pc, cFiles, cName, parts,
                    imageAnalysis, idx, pdfPending, sent, replies >>

\* onChange of the patient-name input, line 408
setPatientName(value) ==
    /\ UNCHANGED raOthers
    /\ patientName' = value
    /\ UNCHANGED << files, isAnalyzing, error, result, previewUrls,
                    imageAnalysisProgress, pc, cFiles, cName, parts,
                    imageAnalysis, idx, pdfPending, sent, replies >>

\* line 74 without its second test
inputMissing_FilesOnly(fs, name) == Len(fs) = 0

\* line 74 asking for a file the pipeline can use
inputMissing_NoUsable(fs, name) ==
    \/ Len(pdfFilesOf(fs)) + Len(imageFilesOf(fs)) = 0
    \/ name = ""

\* line 74
inputMissing(fs, name) == Len(fs) = 0 \/ name = ""

\* line 415 without its first test
submitDisabled_InputOnly == Len(files) = 0 \/ patientName = ""

\* the submit button's disabled attribute, line 415
submitDisabled == isAnalyzing \/ Len(files) = 0 \/ patientName = ""

aggregateRequest == [kind |-> "aggregate", index |-> 0]
imageRequest(i) == [kind |-> "image", index |-> i]

\* the loop of lines 117-181 stopping one image early
imageLoop_SkipLast(imgs, i, p, a, g, s) ==
    /\ idx' = i
    /\ imageAnalysis' = a
    /\ parts' = p
    /\ IF i < Len(imgs)
       THEN /\ pc' = "read"
            /\ imageAnalysisProgress' = Put(g, imgs[i].name, 0)
            /\ sent' = s
       ELSE /\ pc' = "aggregate"
            /\ imageAnalysisProgress' = g
            /\ sent' = Append(s, aggregateRequest)

\* the loop of lines 117-181 without the progress reset of lines 119-122
imageLoop_NoReset(imgs, i, p, a, g, s) ==
    /\ idx' = i
    /\ imageAnalysis' = a
    /\ parts' = p
    /\ imageAnalysisProgress' = g
    /\ IF i <= Len(imgs)
       THEN /\ pc' = "read"
            /\ sent' = s
       ELSE /\ pc' = "aggregate"
            /\ sent' = Append(s, aggregateRequest)

\* The for loop of lines 117-181 arriving at image i with parts p, records a,
\* progress map g and request history s: either the next image's progress is
\* set to 0 and its file read is awaited (lines 119-124), or the loop is over
\* and the aggregate request is issued (lines 184-186).
imageLoop(imgs, i, p, a, g, s) ==
    /\ idx' = i
    /\ imageAnalysis' = a
    /\ parts' = p
    /\ IF i <= Len(imgs)
       THEN /\ pc' = "read"
            /\ imageAnalysisProgress' = Put(g, imgs[i].name, 0)
            /\ sent' = s
       ELSE /\ pc' = "aggregate"
            /\ imageAnalysisProgress' = g
            /\ sent' = Append(s, aggregateRequest)

\* analyzeContent from its call to its first await, lines 73-124
analyzeContent ==
    IF inputMissing(files, patientName)
    THEN /\ error' = ValidationMessage
         /\ UNCHANGED raOthers
         /\ UNCHANGED << files, patientName, isAnalyzing, result, previewUrls,
                         imageAnalysisProgress, pc, cFiles, cName, parts,
                         imageAnalysis, idx, pdfPending, sent, replies >>
    ELSE /\ isAnalyzing' = TRUE
         /\ UNCHANGED raOthers
         /\ error' = ""
         /\ cFiles' = files
         /\ cName' = patientName
         /\ replies' = << >>
         /\ UNCHANGED << files, patientName, result, previewUrls >>
         /\ IF Len(pdfFilesOf(files)) > 0
            THEN /\ pc' = "pdf"
                 /\ pdfPending' = 1..Len(pdfFilesOf(files))
                 /\ parts' = << instructionPart(patientName) >>
                 /\ imageAnalysis' = EmptyMap
                 /\ idx' = 0
                 /\ sent' = << >>
                 /\ UNCHANGED imageAnalysisProgress
            ELSE /\ pdfPending' = {}
                 /\ imageLoop(imageFilesOf(files), 1,
                              << instructionPart(patientName) >>, EmptyMap,
                              imageAnalysisProgress, << >>)

\* A click on the submit button: the button is not disabled (line 415).
Submit == ~submitDisabled /\ analyzeContent

\* The handler run with the form incomplete and no submission in flight.
\* The rendered button is disabled then; the handler keeps its own
\* validation (lines 74-77), which is what this step exercises.
SubmitIncomplete ==
    /\ ~isAnalyzing
    /\ (Len(files) = 0 \/ patientName = "")
    /\ analyzeContent

\* analyzeContent returns: its closure and locals are gone (line 224).
returned ==
    /\ pc' = "idle"
    /\ cFiles' = << >>
    /\ cName' = ""
    /\ parts' = << >>
    /\ imageAnalysis' = EmptyMap
    /\ idx' = 0
    /\ pdfPending' = {}
    /\ sent' = << >>
    /\ replies' = << >>

\* a catch block that also publishes what the run has gathered
catchBlock_PublishPartial ==
    /\ UNCHANGED raOthers
    /\ error' = GenericMessage
    /\ isAnalyzing' = FALSE
    /\ result' = [textFindings |-> NoFindings, imageFindings |-> imageAnalysis,
                  diagnosis |-> NoDiagnosis, recommendations |-> NoRecommendations]
    /\ returned
    /\ UNCHANGED << files, patientName, previewUrls, imageAnalysisProgress >>

\* a catch block with no finally block after it
catchBlock_NoFinally ==
    /\ UNCHANGED raOthers
    /\ error' = GenericMessage
    /\ returned
    /\ UNCHANGED << files, patientName, isAnalyzing, result, previewUrls,
                    imageAnalysisProgress >>

\* catch and finally, lines 218-223
catchBlock ==
    /\ UNCHANGED raOthers
    /\ error' = GenericMessage
    /\ isAnalyzing' = FALSE
    /\ returned
    /\ UNCHANGED << files, patientName, result, previewUrls,
                    imageAnalysisProgress >>

\* One extractTextFromPDF timer fires (lines 50-54); when it is the last one,
\* Promise.all resolves and the run goes on (lines 108-124).
ExtractDone(k) ==
    /\ UNCHANGED raOthers
    /\ pc = "pdf"
    /\ k \in pdfPending
    /\ pdfPending' = pdfPending \ {k}
    /\ UNCHANGED << files, patientName, isAnalyzing, error, result,
                    previewUrls, cFiles, cName, replies >>
    /\ IF pdfPending = {k}
       THEN imageLoop(imageFilesOf(cFiles), 1,
                      Append(parts, pdfPart(pdfFilesOf(cFiles))),
                      imageAnalysis, imageAnalysisProgress, sent)
       ELSE UNCHANGED << pc, parts, imageAnalysis, idx,
                         imageAnalysisProgress, sent >>

\* lines 124-156 issuing the request of the next image along with this one
ReadDone_Eager ==
    /\ UNCHANGED raOthers
    /\ pc = "read"
    /\ LET imgs == imageFilesOf(cFiles) IN
       /\ parts' = parts \o << imageLabelPart(idx, Len(imgs), imgs[idx]),
                               imagePart(imgs[idx]) >>
       /\ sent' = sent \o << imageRequest(idx), imageRequest(idx + 1) >>
    /\ pc' = "image"
    /\ UNCHANGED << files, patientName, isAnalyzing, error, result,
                    previewUrls, imageAnalysisProgress, cFiles, cName,
                    imageAnalysis, idx, pdfPending, replies >>

\* fileToGenerativePart resolves (lines 58-71, 124-156): the two parts are
\* pushed and the per-image request is issued.
ReadDone ==
    /\ UNCHANGED raOthers
    /\ pc = "read"
    /\ LET imgs == imageFilesOf(cFiles) IN
       /\ parts' = parts \o << imageLabelPart(idx, Len(imgs), imgs[idx]),
                               imagePart(imgs[idx]) >>
       /\ sent' = Append(sent, imageRequest(idx))
    /\ pc' = "image"
    /\ UNCHANGED << files, patientName, isAnalyzing, error, result,
                    previewUrls, imageAnalysisProgress, cFiles, cName,
                    imageAnalysis, idx, pdfPending, replies >>

\* The FileReader ends with an error: reader.result is null and line 67
\* throws.
ReadError ==
    /\ pc = "read"
    /\ catchBlock

\* lines 158-180 with no catch around JSON.parse: the SyntaxError reaches
\* the outer catch
ImageReply_Strict(responseText) ==
    IF JSONparse(responseText).ok
    THEN /\ pc = "image"
         /\ UNCHANGED raOthers
         /\ replies' = Append(replies, responseText)
         /\ LET imgs == imageFilesOf(cFiles)
                name == imgs[idx].name
            IN  imageLoop(imgs, idx + 1, parts,
                          Put(imageAnalysis, name, findingsOf(responseText)),
                          Put(imageAnalysisProgress, name, 100), sent)
         /\ UNCHANGED << files, patientName, isAnalyzing, error, result,
                         previewUrls, cFiles, cName, pdfPending >>
    ELSE /\ pc = "image"
         /\ catchBlock

\* lines 158-180 also pushing the reply text onto the parts of the aggregate
\* request
ImageReply_PushReply(responseText) ==
    /\ UNCHANGED raOthers
    /\ pc = "image"
    /\ replies' = Append(replies, responseText)
    /\ LET imgs == imageFilesOf(cFiles)
           name == imgs[idx].name
       IN  imageLoop(imgs, idx + 1, Append(parts, [text |-> responseText]),
                     Put(imageAnalysis, name, findingsOf(responseText)),
                     Put(imageAnalysisProgress, name, 100), sent)
    /\ UNCHANGED << files, patientName, isAnalyzing, error, result,
                    previewUrls, cFiles, cName, pdfPending >>

\* The per-image reply arrives (lines 158-180) and the loop goes on.
ImageReply(responseText) ==
    /\ UNCHANGED raOthers
    /\ pc = "image"
    /\ replies' = Append(replies, responseText)
    /\ LET imgs == imageFilesOf(cFiles)
           name == imgs[idx].name
       IN  imageLoop(imgs, idx + 1, parts,
                     Put(imageAnalysis, name, findingsOf(responseText)),
                     Put(imageAnalysisProgress, name, 100), sent)
    /\ UNCHANGED << files, patientName, isAnalyzing, error, result,
                    previewUrls, cFiles, cName, pdfPending >>

\* a failed per-image request that is issued again
ImageError_Retry ==
    /\ UNCHANGED raOthers
    /\ pc = "image"
    /\ sent' = Append(sent, imageRequest(idx))
    /\ UNCHANGED << files, patientName, isAnalyzing, error, result,
                    previewUrls, imageAnalysisProgress, pc, cFiles, cName,
                    parts, imageAnalysis, idx, pdfPending, replies >>

\* model.generateContent or response.text() throws (lines 135-159).
ImageError ==
    /\ pc = "image"
    /\ catchBlock

\* lines 188-223 also emptying the file selection once the result is set
AggregateReply_ClearsFiles(responseText) ==
    /\ UNCHANGED raOthers
    /\ pc = "aggregate"
    /\ result' = buildResult(responseText, imageAnalysis)
    /\ isAnalyzing' = FALSE
    /\ files' = << >>
    /\ previewUrls' = << >>
    /\ returned
    /\ UNCHANGED << patientName, error, imageAnalysisProgress >>

\* The aggregate reply arrives (lines 188-217, 221-223).
AggregateReply(responseText) ==
    /\ UNCHANGED raOthers
    /\ pc = "aggregate"
    /\ result' = buildResult(responseText, imageAnalysis)
    /\ isAnalyzing' = FALSE
    /\ returned
    /\ UNCHANGED << files, patientName, error, previewUrls,
                    imageAnalysisProgress >>

\* The aggregate request fails (lines 184-189).
AggregateError ==
    /\ pc = "aggregate"
    /\ catchBlock

----------------------------------------------------------------------------
(* generatePDF, lines 265-342: the calls made on the jsPDF document, in    *)
(* order, and the file handed to the browser.                              *)

\* yPos > 230 (lines 311, 327)
PageLimit == 230

\* the cursor after a page break (lines 313, 329)
PageTop == 20

\* textLines.length * 7 (lines 298, 308, 324)
LineHeight == 7

\* format(new Date(), 'MMMM d, yyyy') on the days of the model
Dates == { "November 5, 2026", "November 6, 2026" }

NoDownload == [none |-> TRUE]

\* doc.splitTextToSize(text, pageWidth - 40): the text cut at its line
\* breaks; the texts of the model are narrower than the page.
splitTextToSize(text) == split(text)

\* String(result.imageFindings), the text splitTextToSize is given at line
\* 306: an object, not a string
imageFindingsText(findings) == "[object Object]"

setFontSize(size) == [op |-> "setFontSize", size |-> size]
setFont(style) == [op |-> "setFont", style |-> style]
text(t, x, y) == [op |-> "text", text |-> t, x |-> x, y |-> y]
addPage == [op |-> "addPage"]

\* a section heading in bold and the section's lines under it
\* (lines 289-297, 300-307, 316-323, 332-339)
sectionCommands(heading, lines, yPos) ==
    << setFontSize(14), setFont("bold"), text(heading, 20, yPos),
       setFont("normal"), setFontSize(12), text(lines, 20, yPos + 10) >>

\* lines 272-285: the banner and the two metadata lines
headerCommands(name, date) ==
    << [op |-> "setFillColor", r |-> 41, g |-> 98, b |-> 255],
       [op |-> "rect", x |-> 0, y |-> 0, w |-> "pageWidth", h |-> 40, style |-> "F"],
       [op |-> "setTextColor", r |-> 255, g |-> 255, b |-> 255],
       setFontSize(24),
       text("AI Health Report", 20, 25),
       [op |-> "setTextColor", r |-> 0, g |-> 0, b |-> 0],
       setFontSize(12),
       text("Patient Name: " \o name, 20, 50),
       text("Date: " \o date, 20, 60) >>

\* the page break of lines 310-314, 326-330 leaving the cursor where it was
afterBreak_NoReset(yPos) == yPos

\* lines 310-314, 326-330: a page break and the cursor after it
pageBreak(yPos) == IF yPos > PageLimit THEN << addPage >> ELSE << >>
afterBreak(yPos) == IF yPos > PageLimit THEN PageTop ELSE yPos

\* a renderer that takes the name from the submission form's file list
renderPDF_FromFiles(res, name, date) ==
    LET shown == IF Len(files) = 0 THEN "" ELSE name
        textLines == splitTextToSize(res.textFindings)
        imageLines == splitTextToSize(imageFindingsText(res.imageFindings))
        diagnosisLines == splitTextToSize(res.diagnosis)
        recommendationLines == splitTextToSize(res.recommendations)
        y1 == 50 + 30
        y2 == y1 + 10 + Len(textLines) * LineHeight
        y3 == y2 + 10 + Len(imageLines) * LineHeight
        y3b == afterBreak(y3)
        y4 == y3b + 10 + Len(diagnosisLines) * LineHeight
        y4b == afterBreak(y4)
    IN  [ commands |->
              headerCommands(shown, date)
              \o sectionCommands("Findings from Documents", textLines, y1)
              \o sectionCommands("Image Analysis", imageLines, y2)
              \o pageBreak(y3)
              \o sectionCommands("Diagnosis", diagnosisLines, y3b)
              \o pageBreak(y4)
              \o sectionCommands("Recommendations", recommendationLines, y4b),
          fileName |-> shown \o "_AI_Health_Report.pdf" ]

\* The document generatePDF builds from `result` and the patient-name field
\* as they are when it is called (lines 268-341).
renderPDF(res, name, date) ==
    LET textLines == splitTextToSize(res.textFindings)
        imageLines == splitTextToSize(imageFindingsText(res.imageFindings))
        diagnosisLines == splitTextToSize(res.diagnosis)
        recommendationLines == splitTextToSize(res.recommendations)
        y1 == 50 + 30
        y2 == y1 + 10 + Len(textLines) * LineHeight
        y3 == y2 + 10 + Len(imageLines) * LineHeight
        y3b == afterBreak(y3)
        y4 == y3b + 10 + Len(diagnosisLines) * LineHeight
        y4b == afterBreak(y4)
    IN  [ commands |->
              headerCommands(name, date)
              \o sectionCommands("Findings from Documents", textLines, y1)
              \o sectionCommands("Image Analysis", imageLines, y2)
              \o pageBreak(y3)
              \o sectionCommands("Diagnosis", diagnosisLines, y3b)
              \o pageBreak(y4)
              \o sectionCommands("Recommendations", recommendationLines, y4b),
          fileName |-> name \o "_AI_Health_Report.pdf" ]

\* a generatePDF that keeps the name of the first download
generatePDF_CachedName(date) ==
    /\ IF result = NullResult
       THEN UNCHANGED pdfVars
       ELSE LET name == IF downloadOf = NoDownload THEN patientName
                        ELSE downloadOf.patientName
            IN  /\ download' = renderPDF(result, name, date)
                /\ downloadOf' = [result |-> result, patientName |-> name]
    /\ UNCHANGED << raVars, exVars, secVars, uiVars >>

\* generatePDF, lines 265-342, called on the day `date`
generatePDF(date) ==
    /\ IF result = NullResult
       THEN UNCHANGED pdfVars
       ELSE /\ download' = renderPDF(result, patientName, date)
            /\ downloadOf' = [result |-> result, patientName |-> patientName]
    /\ UNCHANGED << raVars, exVars, secVars, uiVars >>

\* A click on "Download PDF", rendered only with a result (lines 441-454).
Download(date) == result # NullResult /\ generatePDF(date)

pdfIdle ==
    /\ download = NoDownload
    /\ downloadOf = NoDownload

----------------------------------------------------------------------------
(* The section extraction applied to one aggregate reply (lines 189-208).  *)
(* The replies are built from blocks of lines: what precedes the           *)
(* diagnosis heading, the heading, the lines under it, a blank line, the   *)
(* heading of the next section and what follows it.                        *)

MaxIndented == 2

DiagnosisHeading == "Diagnosis: Mild strain"

Preambles ==
    { << >>,
      << "Summary of the analysis" >>,
      << "Initial assessment: pending", "", "Findings:", "Mock text reviewed", "" >> }

IndentedLines ==
    { "  rest and ice",
      "  no fracture: confirmed",
      "  elevate the limb ",
      "  Assessment: stable" }

NextHeadings ==
    { "Recommendations:",
      "Recommendations: see below",
      "Recommendations",
      "Assessment: stable",
      "Treatment plan:  see below",
      "Recommendations for further actions and treatment:" }

Tails ==
    { << >>,
      << "Follow up in two weeks" >>,
      << "Follow up", "", "Prognosis: good" >> }

Shapes ==
    [ pre : Preambles,
      body : UNION { [1..n -> IndentedLines] : n \in 0..MaxIndented },
      next : NextHeadings,
      tail : Tails ]

\* the reply text of a shape
replyText(shape) ==
    join(shape.pre \o << DiagnosisHeading >> \o shape.body \o << "" >>
         \o << shape.next >> \o shape.tail, NL)

NoShape == [pre |-> << >>, body |-> << >>, next |-> "", tail |-> << >>]
NoSections == [textFindings |-> "", diagnosis |-> "", recommendations |-> ""]

exIdle ==
    /\ exShape = NoShape
    /\ exOut = NoSections
    /\ exDone = FALSE

\* The replies the section parsing is applied to, line by line: headings of
\* the three fields, sentences that only mention a keyword, plain lines.
MaxLines == 3

ReplyLines ==
    { "Diagnosis: Mild strain",
      "Assessment: stable",
      "Plan: rest",
      "Treatment: ice",
      "Document Findings:",
      "The diagnosis is unclear",
      "No treatment was recommended so far",
      "Mock text reviewed",
      "" }

secIdle ==
    /\ secReply = << >>
    /\ secOut = NoSections
    /\ secDone = FALSE

secInit ==
    /\ secReply \in UNION { [1..n -> ReplyLines] : n \in 0..MaxLines }
    /\ secOut = NoSections
    /\ secDone = FALSE

\* lines 189-208 run on the reply made of the lines secReply
ParseReply ==
    /\ ~secDone
    /\ secOut' = sectionsOf(join(secReply, NL))
    /\ secDone' = TRUE
    /\ UNCHANGED << secReply, raVars, exVars, pdfVars, uiVars >>

exInit ==
    /\ exShape \in Shapes
    /\ exOut = NoSections
    /\ exDone = FALSE

\* lines 189-208 run on the reply
ApplySections ==
    /\ ~exDone
    /\ exOut' = sectionsOf(replyText(exShape))
    /\ exDone' = TRUE
    /\ UNCHANGED << exShape, raVars, secVars, pdfVars, uiVars >>

\* The steps of a run in flight: each external call returns or throws.
RunStep(imageReplies, aggregateReplies) ==
    \/ \E k \in 1..MaxFiles : ExtractDone(k)
    \/ ReadDone
    \/ ReadError
    \/ \E r \in imageReplies : ImageReply(r)
    \/ ImageError
    \/ \E r \in aggregateReplies : AggregateReply(r)
    \/ AggregateError

----------------------------------------------------------------------------
(* AuthenticatedApp, src/src/App.tsx: six flags say which panel is open;   *)
(* <main> renders the first one that is set, and the dashboard otherwise.  *)

\* Bound of the model: the events of one run of the top-level app.
MaxAppEvents == 3

NoUser == [name |-> "", role |-> ""]

Users == { [name |-> "Asha", role |-> "admin"],
           [name |-> "Ravi", role |-> "patient"] }

\* user?.role === 'admin', App.tsx lines 114 and 156
isAdmin(u) == u.role = "admin"

\* the conditional chain of <main>, App.tsx lines 143-160
mainView ==
    IF showProfile THEN "Profile"
    ELSE IF showBlockchain THEN "BlockchainDemo"
    ELSE IF showCommunity THEN "Community"
    ELSE IF showHandTracker THEN "HandRotationTracker"
    ELSE IF showAdminControl THEN "AdminControl"
    ELSE IF showReportAnalyzer THEN "ReportAnalyzer"
    ELSE IF isAdmin(user) THEN "AdminDashboard"
    ELSE "Dashboard"

\* what the operations of AuthenticatedApp leave alone
appOthers == << raVars, exVars, secVars, pdfVars, dashVars, formVars >>

\* the render that follows an event of the top-level app
appRender ==
    /\ Len(rendered) < MaxAppEvents
    /\ rendered' = Append(rendered, mainView')
    /\ UNCHANGED appOthers

\* toggleProfile, App.tsx lines 24-31
toggleProfile ==
    /\ showProfile' = ~showProfile
    /\ showBlockchain' = FALSE
    /\ showCommunity' = FALSE
    /\ showHandTracker' = FALSE
    /\ showAdminControl' = FALSE
    /\ showReportAnalyzer' = FALSE
    /\ user' = user
    /\ appRender

\* toggleBlockchain, App.tsx lines 33-40
toggleBlockchain ==
    /\ showBlockchain' = ~showBlockchain
    /\ showProfile' = FALSE
    /\ showCommunity' = FALSE
    /\ showHandTracker' = FALSE
    /\ showAdminControl' = FALSE
    /\ showReportAnalyzer' = FALSE
    /\ user' = user
    /\ appRender

toggleCommunity_KeepsOthers ==
    /\ showCommunity' = ~showCommunity
    /\ UNCHANGED << showProfile, showBlockchain, showHandTracker,
                    showAdminControl, showReportAnalyzer, user >>
    /\ appRender

\* toggleCommunity, App.tsx lines 42-49
toggleCommunity ==
    /\ showCommunity' = ~showCommunity
    /\ showProfile' = FALSE
    /\ showBlockchain' = FALSE
    /\ showHandTracker' = FALSE
    /\ showAdminControl' = FALSE
    /\ showReportAnalyzer' = FALSE
    /\ user' = user
    /\ appRender

\* toggleHandTracker, App.tsx lines 51-58
toggleHandTracker ==
    /\ showHandTracker' = ~showHandTracker
    /\ showProfile' = FALSE
    /\ showBlockchain' = FALSE
    /\ showCommunity' = FALSE
    /\ showAdminControl' = FALSE
    /\ showReportAnalyzer' = FALSE
    /\ user' = user
    /\ appRender

\* toggleAdminControl, App.tsx lines 60-67
toggleAdminControl ==
    /\ showAdminControl' = ~showAdminControl
    /\ showProfile' = FALSE
    /\ showBlockchain' = FALSE
    /\ showCommunity' = FALSE
    /\ showHandTracker' = FALSE
    /\ showReportAnalyzer' = FALSE
    /\ user' = user
    /\ appRender

\* A click on "Admin Control", a button rendered for admins only
\* (App.tsx lines 114-121).
clickAdminControl == isAdmin(user) /\ toggleAdminControl

\* toggleReportAnalyzer, App.tsx lines 69-76
toggleReportAnalyzer ==
    /\ showReportAnalyzer' = ~showReportAnalyzer
    /\ showProfile' = FALSE
    /\ showBlockchain' = FALSE
    /\ showCommunity' = FALSE
    /\ showHandTracker' = FALSE
    /\ showAdminControl' = FALSE
    /\ user' = user
    /\ appRender

\* onClose of the open profile panel, App.tsx line 144
closeProfile ==
    /\ showProfile
    /\ showProfile' = FALSE
    /\ UNCHANGED << showBlockchain, showCommunity, showHandTracker,
                    showAdminControl, showReportAnalyzer, user >>
    /\ appRender

\* The "Logout" button (App.tsx lines 132-137) calls logout of the
\* authentication context, which leaves the app without a current user;
\* AuthenticatedApp stays mounted (App.tsx lines 166-172) and keeps its flags.
logout ==
    /\ user' = NoUser
    /\ UNCHANGED << showProfile, showBlockchain, showCommunity,
                    showHandTracker, showAdminControl, showReportAnalyzer >>
    /\ appRender

\* AuthenticatedApp as mounted, for any current user
appInit ==
    /\ showProfile = FALSE
    /\ showBlockchain = FALSE
    /\ showCommunity = FALSE
    /\ showHandTracker = FALSE
    /\ showAdminControl = FALSE
    /\ showReportAnalyzer = FALSE
    /\ user \in Users \cup {NoUser}
    /\ rendered = << >>

appIdle == appInit /\ user = NoUser

----------------------------------------------------------------------------
(* Dashboard, src/src/components/Profile.tsx: points, module counters,     *)
(* coupons, the seven-day challenge and the notification banner.           *)

\* Bound of the model: the tasks completed in one run of the dashboard.
MaxTasks == 11

TaskPoints == 10
RewardCost == 100
\* the delay of the notification timer, in seconds
NotificationDelay == 3

Modules == { "challenges", "mealPlanner", "goals", "journaling" }
ChallengeIds == 1..7

\* the texts a journal entry is submitted with
JournalTexts == { "  ", "Slept well" }
\* Math.random().toString(36).substring(2, 6).toUpperCase(), line 434
RandomStrs == { "7K2Q", "M4XZ" }
\* the dashboard of a user without e-mail address, line 119
userId == "USER"

NoNotification == [message |-> "", type |-> "", age |-> 0, serial |-> 0]

tasksDone ==
    moduleProgress["challenges"] + moduleProgress["mealPlanner"]
        + moduleProgress["goals"] + moduleProgress["journaling"]

\* what the operations of Dashboard leave alone
dashOthers == << raVars, exVars, secVars, pdfVars, appVars, formVars >>

effectCleanup_KeepsTimer(pending) == pending

\* the cleanup of the notification effect, line 164: clearTimeout(timer)
effectCleanup(pending) == {}

\* showNotification, lines 168-170, and the effect the new notification
\* triggers, lines 159-166: the timer of the notification it replaces is
\* cleared, and one of three seconds is set.
showNotification(message, type) ==
    /\ notification' = [message |-> message, type |-> type,
                        age |-> 0, serial |-> nextSerial]
    /\ nextSerial' = 1 - nextSerial
    /\ timers' = effectCleanup(timers) \cup {NotificationDelay}

\* A second goes by: no timer is due.
Tick ==
    /\ timers # {}
    /\ \A t \in timers : t > 0
    /\ timers' = { t - 1 : t \in timers }
    /\ notification' = IF notification = NoNotification
                       THEN notification
                       ELSE [notification EXCEPT !.age = @ + 1]
    /\ UNCHANGED << userPoints, userCoupons, moduleProgress, challenges,
                    journalEntries, nextSerial >>
    /\ UNCHANGED dashOthers

\* A timer set at line 161 fires: setNotification(null), line 162, and the
\* cleanup of the effect of the notification it clears.
TimerFire ==
    /\ 0 \in timers
    /\ notification' = NoNotification
    /\ timers' = IF notification = NoNotification
                 THEN timers \ {0}
                 ELSE effectCleanup(timers \ {0})
    /\ UNCHANGED << userPoints, userCoupons, moduleProgress, challenges,
                    journalEntries, nextSerial >>
    /\ UNCHANGED dashOthers

\* completeTask, lines 426-429
completeTask(module) ==
    /\ userPoints' = userPoints + TaskPoints
    /\ moduleProgress' = [moduleProgress EXCEPT ![module] = @ + 1]

\* handleJournalSubmit, lines 223-234, for the text of the entry field
handleJournalSubmit(entry) ==
    /\ tasksDone < MaxTasks
    /\ IF trim(entry) # ""
       THEN /\ journalEntries' = << entry >> \o journalEntries
            /\ showNotification("Entry Saved Successfully", "success")
            /\ completeTask("journaling")
            /\ UNCHANGED << userCoupons, challenges >>
       ELSE UNCHANGED dashVars
    /\ UNCHANGED dashOthers

\* toggleChallenge, lines 387-401, called by the button of a challenge
\* (lines 575-589)
toggleChallenge(id) ==
    /\ tasksDone < MaxTasks
    /\ challenges' = [c \in DOMAIN challenges |->
                         IF c = id /\ ~challenges[c] THEN TRUE
                         ELSE challenges[c]]
    /\ completeTask("challenges")
    /\ UNCHANGED << userCoupons, journalEntries, notification, timers,
                    nextSerial >>
    /\ UNCHANGED dashOthers

\* GoalTracker is handed completeTask, line 827, and calls it for a module.
trackerTask(module) ==
    /\ tasksDone < MaxTasks
    /\ completeTask(module)
    /\ UNCHANGED << userCoupons, challenges, journalEntries, notification,
                    timers, nextSerial >>
    /\ UNCHANGED dashOthers

claimReward_KeepsPoints(randomStr) ==
    /\ IF userPoints < RewardCost
       THEN UNCHANGED << userCoupons, userPoints >>
       ELSE /\ userCoupons' = Append(userCoupons,
                   [code |-> "HEX-" \o userId \o "-" \o randomStr,
                    status |-> "active"])
            /\ userPoints' = userPoints
    /\ UNCHANGED << moduleProgress, challenges, journalEntries, notification,
                    timers, nextSerial >>
    /\ UNCHANGED dashOthers

\* claimReward, lines 432-442; the expiry date of the coupon is left out
claimReward(randomStr) ==
    /\ IF userPoints < RewardCost
       THEN UNCHANGED << userCoupons, userPoints >>
       ELSE /\ userCoupons' = Append(userCoupons,
                   [code |-> "HEX-" \o userId \o "-" \o randomStr,
                    status |-> "active"])
            /\ userPoints' = userPoints - RewardCost
    /\ UNCHANGED << moduleProgress, challenges, journalEntries, notification,
                    timers, nextSerial >>
    /\ UNCHANGED dashOthers

\* A click on "Claim Reward", rendered from 100 points on (lines 841-848).
ClaimClick(randomStr) == userPoints >= RewardCost /\ claimReward(randomStr)

\* redeemCoupon, lines 445-449
redeemCoupon(code) ==
    /\ userCoupons' = [i \in DOMAIN userCoupons |->
                          IF userCoupons[i].code = code
                          THEN [userCoupons[i] EXCEPT !.status = "claimed"]
                          ELSE userCoupons[i]]
    /\ showNotification("Coupon " \o code
                            \o " applied to your Hexpertify booking!",
                        "success")
    /\ UNCHANGED << userPoints, moduleProgress, challenges, journalEntries >>
    /\ UNCHANGED dashOthers

\* A click on "Redeem", rendered for active coupons (lines 879-885).
RedeemClick ==
    \E i \in DOMAIN userCoupons :
        /\ userCoupons[i].status = "active"
        /\ redeemCoupon(userCoupons[i].code)

\* The browser offers no speech recognition: startVoiceRecognition,
\* lines 179-183.
voiceUnsupported ==
    /\ showNotification("Voice recognition is not supported in your browser",
                        "error")
    /\ UNCHANGED << userPoints, userCoupons, moduleProgress, challenges,
                    journalEntries >>
    /\ UNCHANGED dashOthers

\* Dashboard as mounted, lines 95-118 and 288-296
dashInit ==
    /\ userPoints = 0
    /\ userCoupons = << >>
    /\ moduleProgress = [m \in Modules |-> 0]
    /\ challenges = [c \in ChallengeIds |-> FALSE]
    /\ journalEntries = << >>
    /\ notification = NoNotification
    /\ timers = {}
    /\ nextSerial = 0

dashIdle == dashInit

----------------------------------------------------------------------------
(* HealthProfile, src/unnamed/part_001: a form of six steps, saved through *)
(* updateProfile of the authentication context.                            *)

LastStep == 6
\* the step from which "Save Profile" takes the place of "Next", line 601
SaveStep == 5

\* the fields of the form the model follows, and the step that shows each
FieldStep == [ height |-> 1, dietPreference |-> 5, nationalId |-> 6 ]
FieldNames == DOMAIN FieldStep
FieldValues == { "", "filled" }

NoSave == [pending |-> FALSE]
SaveFailedMessage == "Failed to update health profile. Please try again."

Min(a, b) == IF a < b THEN a ELSE b
Max(a, b) == IF a > b THEN a ELSE b

\* what the operations of HealthProfile leave alone
formOthers == << raVars, exVars, secVars, pdfVars, appVars, dashVars >>

\* the form is on screen, line 561
formShown == ~showSuccess

\* handleInputChange, lines 79-85, for a field of the step on screen
handleInputChange(name, value) ==
    /\ formShown
    /\ FieldStep[name] = currentStep
    /\ formData' = [formData EXCEPT ![name] = value]
    /\ UNCHANGED << currentStep, isSubmitting, showSuccess, showSaveReminder,
                    saving, alerted >>
    /\ UNCHANGED formOthers

\* nextStep, line 103
nextStep ==
    /\ currentStep' = Min(currentStep + 1, LastStep)
    /\ UNCHANGED << formData, isSubmitting, showSuccess, showSaveReminder,
                    saving, alerted >>
    /\ UNCHANGED formOthers

\* A click on "Next", rendered before the step of "Save Profile"
\* (lines 601-608).
NextClick == formShown /\ currentStep < SaveStep /\ nextStep

\* prevStep, line 104
prevStep ==
    /\ currentStep' = Max(currentStep - 1, 1)
    /\ UNCHANGED << formData, isSubmitting, showSuccess, showSaveReminder,
                    saving, alerted >>
    /\ UNCHANGED formOthers

\* A click on "Previous", disabled on the first step (lines 582-593).
PreviousClick == formShown /\ currentStep # 1 /\ prevStep

\* handleSubmit up to its await, lines 87-92, started by "Save Profile"
\* (lines 610-626), which is disabled while isSubmitting
handleSubmit ==
    /\ formShown
    /\ currentStep >= SaveStep
    /\ ~isSubmitting
    /\ isSubmitting' = TRUE
    /\ saving' = [pending |-> TRUE, healthProfile |-> formData]
    /\ UNCHANGED << formData, currentStep, showSuccess, showSaveReminder,
                    alerted >>
    /\ UNCHANGED formOthers

\* updateProfile resolves: lines 93-94 and the finally block, line 99
SaveResolved ==
    /\ saving # NoSave
    /\ showSuccess' = TRUE
    /\ showSaveReminder' = FALSE
    /\ isSubmitting' = FALSE
    /\ saving' = NoSave
    /\ UNCHANGED << formData, currentStep, alerted >>
    /\ UNCHANGED formOthers

SaveRejected_NoFinally ==
    /\ saving # NoSave
    /\ alerted' = SaveFailedMessage
    /\ saving' = NoSave
    /\ UNCHANGED << formData, currentStep, isSubmitting, showSuccess,
                    showSaveReminder >>
    /\ UNCHANGED formOthers

\* updateProfile rejects: the catch block, lines 95-97, and the finally
\* block, line 99
SaveRejected ==
    /\ saving # NoSave
    /\ alerted' = SaveFailedMessage
    /\ isSubmitting' = FALSE
    /\ saving' = NoSave
    /\ UNCHANGED << formData, currentStep, showSuccess, showSaveReminder >>
    /\ UNCHANGED formOthers

\* "Edit Profile" on the success card, lines 568-573
editProfile ==
    /\ showSuccess
    /\ showSuccess' = FALSE
    /\ UNCHANGED << formData, currentStep, isSubmitting, showSaveReminder,
                    saving, alerted >>
    /\ UNCHANGED formOthers

\* HealthProfile as mounted, lines 46-77
formInit ==
    /\ formData = [f \in FieldNames |-> ""]
    /\ currentStep = 1
    /\ isSubmitting = FALSE
    /\ showSuccess = FALSE
    /\ showSaveReminder = FALSE
    /\ saving = NoSave
    /\ alerted = ""

formIdle == formInit

uiIdle == appIdle /\ dashIdle /\ formIdle

\* The component driven by its user and by the completion service, with
\* the inputs drawn from the given sets.
raNext(selections, names, imageReplies, aggregateReplies) ==
    \/ \E sel \in selections : handleFileChange(sel)
    \/ \E n \in names : setPatientName(n)
    \/ Submit
    \/ SubmitIncomplete
    \/ RunStep(imageReplies, aggregateReplies)

vars == << raVars, exVars, secVars, pdfVars, uiVars >>

Init == raInit /\ exIdle /\ secIdle /\ pdfIdle /\ uiIdle

Next == raNext(Selections, PatientNames, ImageReplies, AggregateReplies)

Spec == Init /\ [][Next]_vars

\* The section extraction alone, on every reply of Shapes.
InitExtract == raInit /\ exInit /\ secIdle /\ pdfIdle /\ uiIdle

NextExtract == ApplySections

SpecExtract == InitExtract /\ [][NextExtract]_vars


\* The same component with a smaller choice of files, and every external
\* call eventually returning or throwing.
SmallSelections ==
    UNION { [1..n -> { f \in FilePool : f.name \in { "report.pdf", "scan.jpg" } }]
            : n \in 0..MaxFiles }

NextFair == raNext(SmallSelections, PatientNames, ImageReplies, AggregateReplies)

SpecFair ==
    /\ Init
    /\ [][NextFair]_vars
    /\ WF_vars(RunStep(ImageReplies, AggregateReplies))

\* The section parsing alone, on every reply of at most MaxLines lines.
InitSections == raInit /\ exIdle /\ secInit /\ pdfIdle /\ uiIdle

NextSections == ParseReply

SpecSections == InitSections /\ [][NextSections]_vars

\* The component with its report download, on the smaller choice of files.
NextReport ==
    \/ raNext(SmallSelections, PatientNames, ImageReplies, AggregateReplies)
    \/ \E d \in Dates : Download(d)

SpecReport == Init /\ [][NextReport]_vars

\* The report download on results with long sections. The results are those
\* a successful submission for Jane Doe leaves displayed when the sections
\* of the aggregate reply have the given numbers of lines.
MaxSectionLines == 30

SectionLengths == { 1, 17, 18, MaxSectionLines }

RECURSIVE linesOfText(_)
linesOfText(n) == IF n = 0 THEN << >> ELSE Append(linesOfText(n - 1), "finding")

PageResults ==
    { [ textFindings |-> join(linesOfText(a), NL),
        imageFindings |-> EmptyMap,
        diagnosis |-> join(linesOfText(b), NL),
        recommendations |-> join(linesOfText(c), NL) ]
      : a \in SectionLengths, b \in SectionLengths, c \in SectionLengths }

InitPages ==
    /\ files = << [name |-> "notes.docx", type |-> DocxType] >>
    /\ patientName = "Jane Doe"
    /\ isAnalyzing = FALSE
    /\ error = ""
    /\ result \in PageResults
    /\ previewUrls = << >>
    /\ imageAnalysisProgress = EmptyMap
    /\ pc = "idle"
    /\ cFiles = << >>
    /\ cName = ""
    /\ parts = << >>
    /\ imageAnalysis = EmptyMap
    /\ idx = 0
    /\ pdfPending = {}
    /\ sent = << >>
    /\ replies = << >>
    /\ exIdle /\ secIdle /\ pdfIdle /\ uiIdle

NextPages == \E d \in Dates : Download(d)

SpecPages == InitPages /\ [][NextPages]_vars

\* The top-level app alone, for any current user.
InitApp ==
    raInit /\ exIdle /\ secIdle /\ pdfIdle /\ appInit /\ dashIdle /\ formIdle

NextApp ==
    \/ toggleProfile
    \/ toggleBlockchain
    \/ toggleCommunity
    \/ toggleHandTracker
    \/ clickAdminControl
    \/ toggleReportAnalyzer
    \/ closeProfile
    \/ logout

SpecApp == InitApp /\ [][NextApp]_vars

\* The dashboard alone: tasks of every module, rewards and notifications.
SmallChallengeIds == { 1 }

NextRewards ==
    \/ \E e \in JournalTexts : handleJournalSubmit(e)
    \/ \E id \in SmallChallengeIds : toggleChallenge(id)
    \/ \E m \in Modules : trackerTask(m)
    \/ \E r \in RandomStrs : ClaimClick(r)
    \/ RedeemClick
    \/ Tick
    \/ TimerFire

SpecRewards == Init /\ [][NextRewards]_vars

\* The seven-day challenge alone.
NextChallenges == \E id \in ChallengeIds : toggleChallenge(id)

SpecChallenges == Init /\ [][NextChallenges]_vars

\* The notifications of the dashboard: time goes by, and a timer that is
\* due fires.
NextNotify ==
    \/ \E e \in JournalTexts : handleJournalSubmit(e)
    \/ voiceUnsupported
    \/ \E r \in RandomStrs : ClaimClick(r)
    \/ RedeemClick
    \/ Tick
    \/ TimerFire

SpecNotify ==
    Init /\ [][NextNotify]_vars /\ WF_vars(Tick) /\ WF_vars(TimerFire)

\* The health-profile form alone.
NextForm ==
    \/ \E n \in FieldNames, v \in FieldValues : handleInputChange(n, v)
    \/ NextClick
    \/ PreviousClick
    \/ handleSubmit
    \/ SaveResolved
    \/ SaveRejected
    \/ editProfile

SpecForm == Init /\ [][NextForm]_vars

\* The form filled in by a user who presses "Next" on every step that
\* offers it.
SpecFormFair ==
    /\ Init
    /\ [][NextForm]_vars
    /\ \A s \in 1..LastStep : SF_vars(NextClick /\ currentStep = s)


----------------------------------------------------------------------------
(* Properties.                                                             *)

\* The step on which the run in flight succeeds, and the steps on which it
\* throws.
Succeeds == \E r \in AggregateReplies : AggregateReply(r)
Throws == ReadError \/ ImageError \/ AggregateError

\* C1: a call of analyzeContent with no file selected or an empty patient
\* name sends no request, leaves isAnalyzing false, sets the validation
\* message and leaves `result` as it was.
C1_RejectedCall ==
    [][ (~isAnalyzing /\ (Len(files) = 0 \/ patientName = "") /\ analyzeContent)
        => /\ error' = ValidationMessage
           /\ isAnalyzing' = FALSE
           /\ pc' = "idle"
           /\ sent' = << >>
           /\ result' = result ]_vars

\* a rejected call has happened although a file is selected, with an
\* earlier result on display
C1_Witness ==
    /\ error = ValidationMessage
    /\ Len(files) > 0
    /\ patientName = ""
    /\ result # NullResult
    /\ pc = "idle"

\* C2: while a submission is in flight the submit control is disabled and no
\* second submission starts; `result` changes only when the submission in
\* flight succeeds, to that submission's result.
C2_NoReentrancy ==
    /\ [](pc # "idle" <=> isAnalyzing)
    /\ [](isAnalyzing => submitDisabled)
    /\ [][ /\ (Submit => ~isAnalyzing /\ pc = "idle")
           /\ (result' # result =>
                 /\ pc = "aggregate" /\ pc' = "idle"
                 /\ \E r \in AggregateReplies :
                        result' = buildResult(r, imageAnalysis)) ]_vars

\* a submission is in flight with the form complete and an earlier result
\* on display
C2_Witness ==
    /\ isAnalyzing
    /\ Len(files) > 0
    /\ patientName # ""
    /\ result # NullResult

\* C3: a throw at any await of the pipeline ends the run with the generic
\* message, publishes nothing and leaves `result` as it was.
C3_Caught ==
    [][ Throws
        => /\ error' = GenericMessage
           /\ isAnalyzing' = FALSE
           /\ pc' = "idle"
           /\ sent' = << >>
           /\ result' = result ]_vars

\* a run has thrown at its second image, after the first image's record was
\* gathered, with an earlier result on display
C3_Witness ==
    /\ error = GenericMessage
    /\ pc = "idle"
    /\ result # NullResult
    /\ DOMAIN imageAnalysisProgress = { "scan.jpg", "xray.png" }
    /\ imageAnalysisProgress["scan.jpg"] = 100
    /\ imageAnalysisProgress["xray.png"] = 0
    /\ "xray.png" \notin DOMAIN result.imageFindings


\* C4: a submission that passes validation goes from idle to analyzing and
\* from there, with nothing cancelling or replacing it, to succeeded (its
\* result published) or failed (the generic message), which is idle again;
\* when every external call returns or throws, isAnalyzing becomes false
\* again.
C4_Lifecycle ==
    /\ (isAnalyzing ~> ~isAnalyzing)
    /\ [][ /\ (~isAnalyzing /\ isAnalyzing'
                 => pc = "idle" /\ pc' # "idle" /\ error' = ""
                    /\ cFiles' = files /\ cName' = patientName)
           /\ (isAnalyzing /\ isAnalyzing'
                 => pc # "idle" /\ pc' # "idle"
                    /\ cFiles' = cFiles /\ cName' = cName /\ error' = "")
           /\ (isAnalyzing /\ ~isAnalyzing'
                 => /\ pc # "idle" /\ pc' = "idle"
                    /\ \/ /\ error' = ""
                          /\ \E r \in AggregateReplies :
                                 result' = buildResult(r, imageAnalysis)
                       \/ /\ error' = GenericMessage
                          /\ result' = result) ]_vars

\* a submission has succeeded and a later one has failed, and the component
\* is idle again
C4_Witness ==
    /\ ~isAnalyzing
    /\ pc = "idle"
    /\ result # NullResult
    /\ error = GenericMessage


\* The image file the loop of line 118 is at.
currentImage == imageFilesOf(cFiles)[idx]

\* C5: when a per-image reply is valid JSON of the expected shape, the
\* record stored under the file's name is the parsed object itself, field
\* for field, and the records are published as they were stored.
C5_StoredAsParsed ==
    [][ /\ \A r \in ImageReplies :
             (ImageReply(r) /\ JSONparse(r).ok)
                => imageAnalysis'[currentImage.name] = JSONparse(r).value
        /\ Succeeds => result'.imageFindings = imageAnalysis ]_vars

\* a result is on display whose record for scan.jpg is the parsed object
C5_Witness ==
    /\ result # NullResult
    /\ "scan.jpg" \in DOMAIN result.imageFindings
    /\ result.imageFindings["scan.jpg"] = JSONparse(JsonReply).value
    /\ result.imageFindings["scan.jpg"].confidence = 85

\* C6: when a per-image reply is not valid JSON, the record stored under
\* the file's name has the raw reply as its description, no abnormalities,
\* no measurements, confidence 0 and the fixed "unable to parse"
\* recommendation.
C6_Fallback ==
    [][ \A r \in ImageReplies :
          (ImageReply(r) /\ ~JSONparse(r).ok)
             => LET stored == imageAnalysis'[currentImage.name] IN
                /\ stored.description = r
                /\ stored.abnormalities = << >>
                /\ stored.measurements = << >>
                /\ stored.confidence = 0
                /\ stored.recommendations = "Unable to parse detailed analysis"
                /\ DOMAIN stored = { "description", "abnormalities",
                                     "measurements", "confidence",
                                     "recommendations" } ]_vars

\* the run in flight has stored the fallback record for a reply that is not
\* JSON
C6_Witness ==
    /\ pc # "idle"
    /\ Len(replies) > 0
    /\ replies[Len(replies)] = ProseReply
    /\ imageAnalysis[imageFilesOf(cFiles)[Len(replies)].name].description = ProseReply

\* C7: a per-image reply that does not parse ends nothing: the run stays in
\* flight with no error message and goes on to the next image file, or to
\* the aggregate request when it was the last one.
C7_ParseFailureNotFatal ==
    [][ \A r \in ImageReplies :
          (ImageReply(r) /\ ~JSONparse(r).ok)
             => /\ isAnalyzing'
                /\ error' = ""
                /\ replies' = Append(replies, r)
                /\ IF idx < Len(imageFilesOf(cFiles))
                   THEN pc' = "read" /\ idx' = idx + 1 /\ sent' = sent
                   ELSE pc' = "aggregate" /\ sent' = Append(sent, aggregateRequest) ]_vars

\* a submission has succeeded, with no error message, after its first image's
\* reply failed to parse and its second image's reply parsed
C7_Witness ==
    /\ pc = "idle"
    /\ error = ""
    /\ result # NullResult
    /\ DOMAIN result.imageFindings = { "scan.jpg", "xray.png" }
    /\ \E a, b \in DOMAIN result.imageFindings :
          /\ result.imageFindings[a].recommendations = UnableToParse
          /\ result.imageFindings[b] = JSONparse(JsonReply).value

\* The number of aggregate requests among the requests of the current run.
aggregateCount == Cardinality({ i \in 1..Len(sent) : sent[i].kind = "aggregate" })

\* C10: a run issues its aggregate request once, as its last request, when
\* every PDF's extraction and every image file's request have completed; no
\* aggregate request is out while a per-file step is pending.
C10_AggregateLast ==
    /\ pc = "aggregate"
         => /\ aggregateCount = 1
            /\ sent[Len(sent)] = aggregateRequest
            /\ pdfPending = {}
            /\ Len(replies) = Len(imageFilesOf(cFiles))
            /\ Len(sent) = Len(imageFilesOf(cFiles)) + 1
            /\ \A i \in 1..Len(imageFilesOf(cFiles)) : sent[i] = imageRequest(i)
    /\ pc # "aggregate" => aggregateCount = 0
    /\ pc \in { "read", "image" } => pdfPending = {}

\* the aggregate request is out after one PDF's extraction and one image
\* request
C10_Witness ==
    /\ pc = "aggregate"
    /\ Len(pdfFilesOf(cFiles)) = 1
    /\ Len(replies) = 1
    /\ Len(sent) = 2


\* A line the claims call a heading for the diagnosis keyword set: it
\* contains "diagnosis" or "assessment" and either a colon or the keyword at
\* its end.
DiagnosisKeyed(l) ==
    \E k \in { "diagnosis", "assessment" } :
        /\ includes(toLowerCase(l), k)
        /\ (includes(l, ":") \/ endsWith(toLowerCase(l), k))

\* A line the heuristic takes for the heading of a next section when a blank
\* line precedes it.
RecognisedHeading(l) ==
    /\ Len(l) < HeadingMaxLen
    /\ includes(l, ":")
    /\ ~includes(l, "  ")

AnyKeyed(lines) == \E i \in 1..Len(lines) : DiagnosisKeyed(lines[i])

\* C8 as stated: whenever the reply has the line "Diagnosis: X", two
\* indented lines, a blank line and a new heading, the diagnosis text is the
\* heading line and the two lines (compared up to surrounding whitespace).
C8_Original ==
    (exDone /\ Len(exShape.body) = 2)
        => trim(exOut.diagnosis) =
               trim(join(<< DiagnosisHeading >> \o exShape.body, NL))

\* C8, amended: the same, when the "Diagnosis: X" line is the only line up to
\* and including the new heading that is a heading for the diagnosis keyword
\* set, and the new heading is one the heuristic recognises (shorter than 50
\* characters, with a colon, without two consecutive spaces); the text is
\* the heading line and the lines under it, trimmed, and nothing of the next
\* section.
C8_DiagnosisSection ==
    ( /\ exDone
      /\ ~AnyKeyed(exShape.pre)
      /\ ~AnyKeyed(exShape.body)
      /\ ~DiagnosisKeyed(exShape.next)
      /\ RecognisedHeading(exShape.next) )
        => /\ exOut.diagnosis =
                 trim(join(<< DiagnosisHeading >> \o exShape.body, NL))
           /\ ~includes(exOut.diagnosis, exShape.next)

\* the extraction has run on a reply of the amended claim's shape, with text
\* before the heading, two indented lines under it and a next section with
\* content
C8_Witness ==
    /\ exDone
    /\ exShape.pre = << "Summary of the analysis" >>
    /\ Len(exShape.body) = 2
    /\ ~AnyKeyed(exShape.body)
    /\ exShape.next = "Recommendations: see below"
    /\ Len(exShape.tail) = 3
    /\ exOut.diagnosis # NoInformation


\* The lines "Diagnosis: <text>" of each aggregate reply, and its lines that
\* are headings for the diagnosis keyword set.
isDiagnosisLine(l) == startsWith(l, "Diagnosis: ")
diagnosisLines == [r \in AggregateReplies |-> SelectSeq(split(r), isDiagnosisLine)]
keyedLines == [r \in AggregateReplies |-> SelectSeq(split(r), DiagnosisKeyed)]

\* The run in flight is a submission of one PDF and one image file whose
\* per-image reply was valid JSON.
OnePdfOneImage ==
    /\ Len(cFiles) = 2
    /\ Len(pdfFilesOf(cFiles)) = 1
    /\ Len(imageFilesOf(cFiles)) = 1
    /\ cName # ""
    /\ Len(replies) = 1
    /\ JSONparse(replies[1]).ok

\* C9 as stated: such a submission, on an aggregate reply with a line
\* "Diagnosis: <text>", publishes a diagnosis that starts with that line and
\* image findings with the image file's name as their only key.
C9_Original ==
    [][ \A r \in AggregateReplies :
          (AggregateReply(r) /\ OnePdfOneImage)
             => /\ \A i \in 1..Len(diagnosisLines[r]) :
                      startsWith(result'.diagnosis, trimEnd(diagnosisLines[r][i]))
                /\ DOMAIN result'.imageFindings = { imageFilesOf(cFiles)[1].name } ]_vars

\* C9, amended: the same, when the "Diagnosis: <text>" line is the only line
\* of the aggregate reply that is a heading for the diagnosis keyword set.
C9_EndToEnd ==
    [][ \A r \in AggregateReplies :
          (AggregateReply(r) /\ OnePdfOneImage)
             => /\ \A i \in 1..Len(diagnosisLines[r]) :
                      keyedLines[r] = << diagnosisLines[r][i] >>
                         => startsWith(result'.diagnosis,
                                       trimEnd(diagnosisLines[r][i]))
                /\ DOMAIN result'.imageFindings = { imageFilesOf(cFiles)[1].name }
                /\ result'.imageFindings[imageFilesOf(cFiles)[1].name]
                      = JSONparse(replies[1]).value ]_vars

\* the submission of report.pdf and scan.jpg for Jane Doe has succeeded on
\* the reply whose only diagnosis heading is "Diagnosis: Mild strain"
C9_Witness ==
    /\ pc = "idle"
    /\ error = ""
    /\ files = << [name |-> "report.pdf", type |-> PdfType],
                  [name |-> "scan.jpg", type |-> "image/jpeg"] >>
    /\ patientName = "Jane Doe"
    /\ result # NullResult
    /\ startsWith(result.diagnosis, "Diagnosis: Mild strain")
    /\ DOMAIN result.imageFindings = { "scan.jpg" }
    /\ result.imageFindings["scan.jpg"] = JSONparse(JsonReply).value
    /\ result.textFindings # NoFindings

----------------------------------------------------------------------------

\* no request occurs twice in the history of the run in flight
NoRepeat(seq) == \A i, j \in 1..Len(seq) : seq[i] = seq[j] => i = j

\* C11: within one submission no completion request is issued twice; a step
\* on which the run throws issues no request, ends the run (so that none of
\* its later requests is ever issued) and changes nothing of the component
\* state but the error message and the analyzing flag; with no run in
\* flight, a request is only issued by a new submission.
C11_NoRetry ==
    [][ /\ NoRepeat(sent')
        /\ Throws => /\ pc' = "idle"
                     /\ sent' = << >>
                     /\ error' = GenericMessage
                     /\ isAnalyzing' = FALSE
                     /\ UNCHANGED << files, patientName, result, previewUrls,
                                     imageAnalysisProgress >>
        /\ (pc = "idle" /\ sent' # << >>) => (~isAnalyzing /\ isAnalyzing')
        /\ pc' = "idle" => (sent' = << >> /\ ~isAnalyzing') ]_vars

\* a submission of scan.jpg and xray.png has failed on its first image: the
\* second image was never started and nothing was published
C11_Witness ==
    /\ pc = "idle"
    /\ ~isAnalyzing
    /\ error = GenericMessage
    /\ result = NullResult
    /\ files = << [name |-> "scan.jpg", type |-> "image/jpeg"],
                  [name |-> "xray.png", type |-> "image/png"] >>
    /\ DOMAIN imageAnalysisProgress = { "scan.jpg" }
    /\ imageAnalysisProgress["scan.jpg"] = 0

----------------------------------------------------------------------------

\* a text command that prints the generation date (line 285)
isDateCommand(c) == c.op = "text" /\ startsWith(c.text, "Date: ") /\ c.y = 60

\* two saved documents agree on the file name and on every command, the
\* printed date apart
sameButDate(a, b) ==
    /\ a.fileName = b.fileName
    /\ Len(a.commands) = Len(b.commands)
    /\ \A k \in 1..Len(a.commands) :
          \/ a.commands[k] = b.commands[k]
          \/ isDateCommand(a.commands[k]) /\ isDateCommand(b.commands[k])

\* C12 as stated: a download of the result that the last download was
\* rendered from saves the same document, the date apart, whatever happened
\* between the two downloads.
C12_Original ==
    [][ \A d \in Dates :
          (/\ download # NoDownload
           /\ downloadOf.result = result
           /\ raVars' = raVars
           /\ Download(d))
             => sameButDate(download', download) ]_vars

\* C12, amended: the same, when the patient-name field holds at the second
\* download the value it held at the first.
C12_Idempotent ==
    [][ \A d \in Dates :
          (/\ download # NoDownload
           /\ downloadOf.result = result
           /\ downloadOf.patientName = patientName
           /\ raVars' = raVars
           /\ Download(d))
             => sameButDate(download', download) ]_vars

\* a report was downloaded for the displayed result under the name now in
\* the field; since then the files were deselected and a later submission
\* has failed
C12_Witness ==
    /\ download # NoDownload
    /\ downloadOf.result = result
    /\ downloadOf.patientName = patientName
    /\ download.fileName = "Jane Doe_AI_Health_Report.pdf"
    /\ files = << >>
    /\ error = GenericMessage
    /\ pc = "idle"

----------------------------------------------------------------------------

\* the per-image requests the run in flight has issued, in the order issued
isImageRequest(q) == q.kind = "image"
imageRequests == SelectSeq(sent, isImageRequest)

\* C13: the per-image requests of a submission are issued in file order, the
\* request of an image only when the replies of all images before it have
\* been received and their records stored; at most one of them is in flight
\* (issued and not yet answered) at any time.
C13_Sequential ==
    LET imgs == imageFilesOf(cFiles)
        n == Len(imageRequests)
    IN  /\ n <= Len(imgs)
        /\ \A i \in 1..n : imageRequests[i] = imageRequest(i)
        /\ Len(replies) <= n
        /\ n - Len(replies) <= 1
        /\ (n - Len(replies) = 1) <=> (pc = "image")
        /\ pc = "image" => idx = n
        /\ \A i \in 1..Len(replies) :
              imgs[i].name \in DOMAIN imageAnalysis

\* the request of the second image, xray.png, is in flight: the reply of the
\* first, scan.jpg, has been received and its record stored
C13_Witness ==
    /\ pc = "image"
    /\ idx = 2
    /\ imageFilesOf(cFiles) = << [name |-> "scan.jpg", type |-> "image/jpeg"],
                                 [name |-> "xray.png", type |-> "image/png"] >>
    /\ sent = << imageRequest(1), imageRequest(2) >>
    /\ Len(replies) = 1
    /\ DOMAIN imageAnalysis = { "scan.jpg" }

----------------------------------------------------------------------------

\* The parts the claim expects for the images from the i-th on: for each, the
\* sub-prompt, the encoded bytes and, where withReply, the image's reply.
RECURSIVE expectedImageParts(_, _, _)
expectedImageParts(imgs, i, withReply) ==
    IF i > Len(imgs) THEN << >>
    ELSE << imageLabelPart(i, Len(imgs), imgs[i]), imagePart(imgs[i]) >>
         \o (IF withReply THEN << [text |-> replies[i]] >> ELSE << >>)
         \o expectedImageParts(imgs, i + 1, withReply)

\* the instruction, the block of extracted text if a PDF was submitted, and
\* the parts of the images
expectedParts(withReply) ==
    << instructionPart(cName) >>
    \o (IF \E k \in 1..Len(cFiles) : isPdf(cFiles[k])
        THEN << [text |-> "Text extracted from PDF documents:\n"
                          \o join(mockTexts(pdfFilesOf(cFiles)), "\n\n")] >>
        ELSE << >>)
    \o expectedImageParts(imageFilesOf(cFiles), 1, withReply)

----------------------------------------------------------------------------

\* some line of the reply under parsing is a heading for the keyword set
\* (the test of lines 236-239)
hasHeading(sectionNames) ==
    \E k \in 1..Len(secReply) :
        isTargetSection(toLowerCase(secReply[k]), sectionNames)

\* C15: a field of the parsed reply for which the reply has no heading line
\* holds that field's "not available" placeholder.
C15_Original ==
    secDone =>
        /\ ~hasHeading(FindingsNames) => secOut.textFindings = NoFindings
        /\ ~hasHeading(DiagnosisNames) => secOut.diagnosis = NoDiagnosis
        /\ ~hasHeading(RecommendationNames)
              => secOut.recommendations = NoRecommendations

\* C16: a field of the parsed reply for which the reply has a heading line,
\* for any keyword of the field's set, is populated from the reply by the
\* section extraction with that set.
C16_Original ==
    secDone =>
        /\ hasHeading(FindingsNames)
              => /\ secOut.textFindings # NoFindings
                 /\ secOut.textFindings
                       = extractSection(join(secReply, NL), FindingsNames)
        /\ hasHeading(DiagnosisNames)
              => /\ secOut.diagnosis # NoDiagnosis
                 /\ secOut.diagnosis
                       = extractSection(join(secReply, NL), DiagnosisNames)
        /\ hasHeading(RecommendationNames)
              => /\ secOut.recommendations # NoRecommendations
                 /\ secOut.recommendations
                       = extractSection(join(secReply, NL), RecommendationNames)

----------------------------------------------------------------------------

\* the progress shown for the file called name is 100
shows100(g, name) == name \in DOMAIN g /\ g[name] = 100

\* C17: while the file read or the request of an image is awaited, the
\* progress of that file is 0; a step on which the run throws there leaves
\* it 0; and the progress of a file becomes 100 only on the step that
\* receives the reply of that file's request and stores its record.
C17_Progress ==
    [][ /\ pc' \in { "read", "image" }
           => /\ currentImage'.name \in DOMAIN imageAnalysisProgress'
              /\ imageAnalysisProgress'[currentImage'.name] = 0
        /\ (Throws /\ pc \in { "read", "image" })
           => imageAnalysisProgress'[currentImage.name] = 0
        /\ \A f \in FilePool :
              (shows100(imageAnalysisProgress', f.name)
                  /\ ~shows100(imageAnalysisProgress, f.name))
              => /\ pc = "image"
                 /\ currentImage.name = f.name
                 /\ Len(replies') = Len(replies) + 1
                 /\ imageAnalysis'[f.name] = findingsOf(replies'[Len(replies')]) ]_vars

\* scan.jpg is submitted a second time: its request is in flight and its
\* progress is back to 0, while the result of the first submission still
\* holds its record
C17_Witness ==
    /\ pc = "image"
    /\ currentImage.name = "scan.jpg"
    /\ imageAnalysisProgress["scan.jpg"] = 0
    /\ result # NullResult
    /\ "scan.jpg" \in DOMAIN result.imageFindings

----------------------------------------------------------------------------

\* the position of the last image file of the run that has the name of the
\* i-th
lastOfName(imgs, i) ==
    CHOOSE j \in i..Len(imgs) :
        /\ imgs[j].name = imgs[i].name
        /\ \A k \in (j + 1)..Len(imgs) : imgs[k].name # imgs[i].name

\* C18: the image findings a submission publishes hold one entry per
\* distinct name among its image files; the entry of a name is the record of
\* the reply to the last file of that name; and one request was issued, and
\* one reply received, per image file.
C18_KeyedByName ==
    [][ Succeeds =>
          LET imgs == imageFilesOf(cFiles) IN
          /\ DOMAIN result'.imageFindings = { imgs[i].name : i \in 1..Len(imgs) }
          /\ Len(imageRequests) = Len(imgs)
          /\ Len(replies) = Len(imgs)
          /\ \A i \in 1..Len(imgs) :
                result'.imageFindings[imgs[i].name]
                   = findingsOf(replies[lastOfName(imgs, i)]) ]_vars

\* two files called scan.jpg were analysed, the first with a JSON reply and
\* the second with a reply that did not parse: one record is held, the
\* second file's
C18_Witness ==
    /\ pc = "aggregate"
    /\ Len(imageFilesOf(cFiles)) = 2
    /\ \A i \in 1..2 : imageFilesOf(cFiles)[i].name = "scan.jpg"
    /\ replies = << JsonReply, ProseReply >>
    /\ Len(imageRequests) = 2
    /\ DOMAIN imageAnalysis = { "scan.jpg" }
    /\ imageAnalysis["scan.jpg"].recommendations = UnableToParse

----------------------------------------------------------------------------

\* C19: `result` is only written by the step that receives the aggregate
\* reply of the submission in flight, which ends the submission; every other
\* step (a file selection, an edit of the patient name, a rejected call, a
\* throwing step, a report download) leaves it as it is.
C19_ResultWrittenOnce ==
    [][ /\ result' # result
           => /\ pc = "aggregate"
              /\ isAnalyzing
              /\ Succeeds
              /\ result' # NullResult
        /\ Succeeds => (pc' = "idle" /\ ~isAnalyzing') ]_vars

\* the result of a successful submission is still displayed after a report
\* download, a later submission that failed, an edit of the patient name and
\* a new file selection
C19_Witness ==
    /\ result # NullResult
    /\ download # NoDownload
    /\ downloadOf.result = result
    /\ error = GenericMessage
    /\ patientName = ""
    /\ files = << >>
    /\ pc = "idle"

----------------------------------------------------------------------------

\* C20 as stated: the step that ends a submission, succeeded or failed,
\* leaves no file selected.
C20_Original ==
    [][ (Succeeds \/ Throws) => files' = << >> ]_vars

\* C20, amended: the step that ends a submission leaves the selected files
\* and their previews as they are; the selection only changes by a new
\* selection of the user, which changes nothing of the submission in flight.
C20_FilesKept ==
    [][ /\ (Succeeds \/ Throws) => (files' = files /\ previewUrls' = previewUrls)
        /\ files' # files
              => /\ previewUrls' = previewUrlsOf(files')
                 /\ UNCHANGED << patientName, isAnalyzing, error, result,
                                 imageAnalysisProgress, pc, cFiles, cName,
                                 parts, imageAnalysis, idx, sent, replies >> ]_vars

\* the submission of report.pdf and scan.jpg has succeeded and both files
\* are still selected, the form ready for another submission
C20_Witness ==
    /\ pc = "idle"
    /\ ~isAnalyzing
    /\ error = ""
    /\ result # NullResult
    /\ DOMAIN result.imageFindings = { "scan.jpg" }
    /\ files = << [name |-> "report.pdf", type |-> PdfType],
                  [name |-> "scan.jpg", type |-> "image/jpeg"] >>
    /\ previewUrls = << "blob:scan.jpg" >>
    /\ ~submitDisabled

----------------------------------------------------------------------------

\* the positions of the page breaks among the commands of a document, and
\* the position of the command that prints the given section heading
breaksOf(doc) == { k \in 1..Len(doc.commands) : doc.commands[k] = addPage }
headingAt(doc, heading) ==
    CHOOSE k \in 1..Len(doc.commands) :
        doc.commands[k].op = "text" /\ doc.commands[k].text = heading

\* the cursor after the lines of the section printed before the given
\* heading: where these lines start plus the height of each (lines 298, 308,
\* 324)
cursorBefore(doc, heading) ==
    LET k == CHOOSE j \in 1..(headingAt(doc, heading) - 1) :
                 /\ doc.commands[j].op = "text"
                 /\ \A m \in (j + 1)..(headingAt(doc, heading) - 1) :
                       doc.commands[m].op # "text"
    IN  doc.commands[k].y + LineHeight * Len(doc.commands[k].text)

\* a page break stands right before the commands of the given heading
\* (two style commands, then the heading's text)
breakBefore(doc, heading) == (headingAt(doc, heading) - 3) \in breaksOf(doc)

\* C21: in every saved report a page break stands before the "Diagnosis"
\* heading exactly when the cursor there exceeds 230, and likewise before
\* the "Recommendations" heading; after a break the heading is printed at
\* 20, otherwise at the cursor; there is no other page break, so the report
\* has at most three pages.
C21_Pagination ==
    download # NoDownload =>
        /\ \A h \in { "Diagnosis", "Recommendations" } :
              /\ breakBefore(download, h) <=> (cursorBefore(download, h) > PageLimit)
              /\ download.commands[headingAt(download, h)].y
                    = IF cursorBefore(download, h) > PageLimit
                      THEN PageTop ELSE cursorBefore(download, h)
        /\ breaksOf(download)
              \subseteq { headingAt(download, "Diagnosis") - 3,
                          headingAt(download, "Recommendations") - 3 }
        /\ Cardinality(breaksOf(download)) + 1 <= 3

\* a report of three pages: the findings push the cursor past 230 before
\* "Diagnosis", and the diagnosis does so again before "Recommendations"
C21_Witness ==
    /\ download # NoDownload
    /\ Cardinality(breaksOf(download)) = 2
    /\ download.commands[headingAt(download, "Diagnosis")].y = PageTop
    /\ download.commands[headingAt(download, "Recommendations")].y = PageTop

\* the flags of the six panels, and how many of them are set
panelFlags ==
    << showProfile, showBlockchain, showCommunity, showHandTracker,
       showAdminControl, showReportAnalyzer >>

openPanels == Cardinality({ i \in 1..6 : panelFlags[i] })

\* the flag at position i is negated and the five others are cleared
toggled(i) ==
    /\ panelFlags'[i] = ~panelFlags[i]
    /\ \A j \in 1..6 : j # i => panelFlags'[j] = FALSE

DefaultViews == { "Dashboard", "AdminDashboard" }

\* C22: every toggle of a top-level panel negates its own flag and clears
\* the five others, so that, whatever toggles and profile closes came
\* before, at most one of the six flags is set; and toggling the panel that
\* is open brings back the default dashboard view.
C22_OnePanel ==
    [][ /\ toggleProfile => toggled(1)
        /\ toggleBlockchain => toggled(2)
        /\ toggleCommunity => toggled(3)
        /\ toggleHandTracker => toggled(4)
        /\ toggleAdminControl => toggled(5)
        /\ toggleReportAnalyzer => toggled(6)
        /\ openPanels' <= 1
        /\ \A i \in 1..6 :
              panelFlags[i] /\ toggled(i) => mainView' \in DefaultViews
      ]_vars

\* a panel was opened, another one took its place, and the toggle of that
\* one brought the dashboard back
C22_Witness ==
    /\ rendered = << "Community", "ReportAnalyzer", "Dashboard" >>
    /\ openPanels = 0

carriesName(doc, n) ==
    /\ \E k \in 1..Len(doc.commands) :
          doc.commands[k] = text("Patient Name: " \o n, 20, 50)
    /\ doc.fileName = n \o "_AI_Health_Report.pdf"

\* The name every result of the model is produced under: analyzeContent
\* returns at line 75 on an empty name, and one name is not empty.
producedUnder == CHOOSE n \in PatientNames : n # ""

\* C24 as stated: a downloaded report prints, and is named after, the
\* patient name under which the displayed result was produced, whatever was
\* typed into the patient-name field after the analysis.
C24_Original ==
    download # NoDownload => carriesName(download, producedUnder)

\* C24, amended: a downloaded report prints, and is named after, the value
\* that the patient-name field holds when the report is downloaded; every
\* result is produced under the name captured at submission.
C24_FieldAtDownload ==
    /\ [][ (pc = "aggregate" /\ pc' = "idle" /\ Succeeds)
              => cName = producedUnder ]_vars
    /\ [][ \A d \in Dates :
             (raVars' = raVars /\ Download(d))
                 => carriesName(download', patientName) ]_vars

\* the result was produced for "Jane Doe", the field was emptied after the
\* analysis, and the report was then downloaded
C24_Witness ==
    /\ result # NullResult
    /\ patientName = ""
    /\ download # NoDownload
    /\ downloadOf = [result |-> result, patientName |-> ""]
    /\ carriesName(download, "")

\* a selection of files none of which is a PDF or an image
otherOnly(fs) ==
    /\ Len(fs) > 0
    /\ \A k \in 1..Len(fs) : ~isPdf(fs[k]) /\ ~isImage(fs[k])

\* C25: files that are neither PDFs nor images pass the validation and add
\* no part to a request: a submission made of such files only is accepted,
\* issues one completion request, the aggregate one, whose parts are the
\* instruction prompt alone, and a success stores a result whose
\* imageFindings is empty.
C25_OtherFilesOnly ==
    /\ []( (pc # "idle" /\ otherOnly(cFiles))
             => /\ pc = "aggregate"
                /\ sent = << aggregateRequest >>
                /\ parts = << instructionPart(cName) >> )
    /\ [][ (pc = "idle" /\ otherOnly(files) /\ patientName # ""
              /\ ~isAnalyzing /\ analyzeContent)
             => pc' = "aggregate" /\ error' = "" ]_vars
    /\ [][ (pc = "aggregate" /\ pc' = "idle" /\ otherOnly(cFiles) /\ Succeeds)
             => /\ result' # NullResult
                /\ result'.imageFindings = EmptyMap ]_vars

\* a submission of notes.docx alone has succeeded
C25_Witness ==
    /\ files = << [name |-> "notes.docx", type |-> DocxType] >>
    /\ pc = "idle"
    /\ error = ""
    /\ result # NullResult
    /\ result.imageFindings = EmptyMap
    /\ imageAnalysisProgress = EmptyMap

\* the coupon at position i of the list after a step is a new active one
issuedActive(i) ==
    /\ i \in DOMAIN userCoupons'
    /\ userCoupons'[i].status = "active"

\* C26: in the dashboard, whatever completeTask, claimReward and
\* redeemCoupon calls came before, userPoints is not negative and equals
\* ten times the sum of the four module counters minus a hundred times the
\* number of coupons issued; and claimReward changes the state only from
\* 100 points on, when it appends one active coupon and takes off 100
\* points.
C26_Accounting ==
    /\ []( /\ userPoints >= 0
           /\ userPoints = TaskPoints * tasksDone
                             - RewardCost * Len(userCoupons) )
    /\ [][ \A r \in RandomStrs :
             claimReward(r)
                 => /\ userPoints >= RewardCost
                    /\ userPoints' = userPoints - RewardCost
                    /\ Len(userCoupons') = Len(userCoupons) + 1
                    /\ SubSeq(userCoupons', 1, Len(userCoupons)) = userCoupons
                    /\ issuedActive(Len(userCoupons'))
                    /\ moduleProgress' = moduleProgress ]_vars

\* a reward was claimed with 100 points, the coupon was redeemed, and one
\* more task was completed since
C26_Witness ==
    /\ tasksDone = 11
    /\ Len(userCoupons) = 1
    /\ userCoupons[1].status = "claimed"
    /\ userPoints = 10

\* the challenges marked completed
completedChallenges == { c \in DOMAIN challenges : challenges[c] }

\* C27: whatever toggleChallenge calls came before, the challenges counter
\* of moduleProgress equals the number of challenges marked completed, which
\* is at most seven: points and the counter are awarded only when a
\* challenge goes from not completed to completed.
C27_Original ==
    /\ moduleProgress["challenges"] = Cardinality(completedChallenges)
    /\ moduleProgress["challenges"] <= 7

\* C28: in the health-profile form currentStep stays within 1..6, and each
\* of the six steps, the sixth (Insurance & ID) included, is reached from
\* step 1 through Previous, Next, Save Profile and Edit Profile: a user who
\* presses Next on every step that offers it gets to see every step.
C28_Original ==
    /\ [](currentStep \in 1..LastStep)
    /\ \A s \in 1..LastStep : <>(currentStep = s)

\* C29: isSubmitting holds exactly while the updateProfile call of a save
\* is pending, and is false again once it has settled either way;
\* showSuccess becomes true on a resolved updateProfile only; a rejected
\* one leaves showSuccess, the form data and the current step as they are.
C29_SaveLifecycle ==
    /\ [](isSubmitting <=> saving # NoSave)
    /\ [][ (~showSuccess /\ showSuccess') => SaveResolved ]_vars
    /\ [][ SaveResolved => ~isSubmitting' /\ showSuccess' ]_vars
    /\ [][ SaveRejected
             => /\ ~isSubmitting'
                /\ showSuccess' = showSuccess
                /\ formData' = formData
                /\ currentStep' = currentStep ]_vars

\* a save of a filled-in form has failed: the alert was shown, the form is
\* on its last reachable step with its data, ready to be saved again
C29_Witness ==
    /\ alerted = SaveFailedMessage
    /\ ~isSubmitting
    /\ saving = NoSave
    /\ ~showSuccess
    /\ currentStep = SaveStep
    /\ formData["dietPreference"] = "filled"

\* C30: every notification of the dashboard is cleared in the end unless
\* another one takes its place, and it is cleared three seconds after it
\* was set, not before: the only timer pending is the one of the
\* notification on screen, the timer of a notification that was replaced
\* having been cancelled.
C30_Cleared ==
    /\ []( IF notification = NoNotification
           THEN timers = {}
           ELSE timers = { NotificationDelay - notification.age } )
    /\ [][ (notification # NoNotification /\ notification' = NoNotification)
             => notification.age = NotificationDelay ]_vars
    /\ \A s \in {0, 1} :
          (notification # NoNotification /\ notification.serial = s)
              ~> (notification = NoNotification \/ notification.serial # s)

\* a second notification has been on screen for three seconds and its
\* timer, the only one, is due
C30_Witness ==
    /\ notification # NoNotification
    /\ notification.serial = 1
    /\ notification.age = NotificationDelay
    /\ timers = {0}

=============================================================================
